---- MODULE Spec2Model ----
(***************************************************************************)
(* A model of PostShowV2.py: the MP3Tagger tag store, the Chapter model,   *)
(* the MP3Encoder thread and the Main program with its SIGINT handler.     *)
(*                                                                         *)
(* Three specifications share the variables:                               *)
(*   SpecTag   the MP3Tagger class driven by an arbitrary client,          *)
(*   SpecChap  the Chapter class driven by an arbitrary client,            *)
(*   Spec      the program: Main(), Main.main(), the encoder thread, the   *)
(*             lame process and the delivery of SIGINT.                    *)
(***************************************************************************)
EXTENDS Integers, Sequences, FiniteSets, TLC

VARIABLES
    tag,        \* MP3Tagger.tag: the mutagen ID3 dict, HashKey -> frame
    opened,     \* an MP3Tagger has been constructed (self.tag exists)
    tagErr,     \* the exception MP3Tagger.__init__ ended in, or None
    file,       \* the file MP3Tagger is opened on (SpecTag)
    lastSet,    \* history: the value last set, per single-valued field set so far
    prevSet,    \* history: the value set before that, per field set at least twice
    adds,       \* history: the add_comment / add_lyrics calls, in order
    nops,       \* number of MP3Tagger calls made so far
    chapters,   \* the Chapter objects constructed so far
    results,    \* the outcome of every as_chap call made so far
    pc,         \* the main thread's position in the program
    exc,        \* the exception that ended the main thread, or None
    global_m,   \* what the module-level name m is bound to
    args,       \* the command line: args.outdir, whether that directory exists
                \* already, and the labels of the file args.markers names
    config,     \* the configuration profile: is it valid, and its filename
    metadata,   \* self.metadata, the answers to ask_metadata
    mp3_path,   \* self.mp3_path
    outfile,    \* self.m.outfile
    thr,        \* the MP3Encoder thread: new, started, waiting, finished
    lame,       \* the lame process: none, running, exited, aborted, terminated
    fs,         \* the file system: resolved path -> file
    tagPath,    \* history: the path MP3Tagger was called with, <<>> if never
    sigAtWork,  \* history: SIGINT arrived while the encoder thread was running
    stop_requested  \* history: MP3Encoder.request_stop was entered

tagVars == <<tag, opened, tagErr, file, lastSet, prevSet, adds, nops>>
chapVars == <<chapters, results>>
progVars == <<pc, exc, global_m, args, config, metadata, mp3_path, outfile, thr,
              lame, fs, tagPath, sigAtWork, stop_requested>>

None == "None"

\* ---------------------------------------------------------------- bounds
MaxOps == 3
MaxChapters == 2
MaxRenders == 2

\* ------------------------------------------------------------ input sets
Values == {<<"a">>, <<"b">>}
Langs == {"eng"}
Descs == {"", "d"}
\* decoded length of the audio in quarter milliseconds: 2.25, 2.5, 3.5 ms
LengthsQ == {9, 10, 14}

\* ------------------------------------------------------- text conversion
Digit(d) == CASE d = 0 -> "0" [] d = 1 -> "1" [] d = 2 -> "2" [] d = 3 -> "3"
              [] d = 4 -> "4" [] d = 5 -> "5" [] d = 6 -> "6" [] d = 7 -> "7"
              [] d = 8 -> "8" [] d = 9 -> "9"

RECURSIVE IntStr(_)
\* str(n) of a Python int n >= 0, as its sequence of characters
IntStr(n) == IF n < 10 THEN <<Digit(n)>> ELSE IntStr(n \div 10) \o <<Digit(n % 10)>>

\* str(x) of a Python float x >= 0 holding the whole number n: "n.0"
FloatStr(n) == IntStr(n) \o <<".", "0">>

\* round(q / 4) as Python 3 rounds: to nearest, a tie to the even neighbour
RoundHalfEven(q) ==
    LET fl == q \div 4
        r  == q % 4
    IN  IF r < 2 THEN fl
        ELSE IF r > 2 THEN fl + 1
        ELSE IF fl % 2 = 0 THEN fl ELSE fl + 1

\* str(round(mp3.info.length * 1000, 0)): round with ndigits given returns a float
LengthText(q) == FloatStr(RoundHalfEven(q))

\* ------------------------------------------------------ mutagen ID3 dict
TextFrame(fid, v) == [id |-> fid, text |-> v]
KeyedFrame(fid, lang, desc, v) == [id |-> fid, lang |-> lang, desc |-> desc, text |-> v]

\* Frame.HashKey: the frame id, for COMM and USLT followed by desc and lang
HashKey(fr) ==
    IF fr.id \in {"COMM", "USLT"} THEN <<fr.id, fr.desc, fr.lang>> ELSE <<fr.id>>

EmptyTag == [k \in {} |-> None]

\* a delall whose test is inverted: it keeps the frames of fid and drops the rest
delallOthers(t, fid) == [k \in {x \in DOMAIN t : x[1] = fid} |-> t[k]]

\* ID3.delall(fid): drop every frame whose key is fid or starts with fid:
delall(t, fid) == [k \in {x \in DOMAIN t : x[1] # fid} |-> t[k]]

\* an add that keeps the frame already stored under the key (dict.setdefault)
addIfAbsent(t, fr) ==
    [k \in DOMAIN t \cup {HashKey(fr)} |-> IF k \in DOMAIN t THEN t[k] ELSE fr]

\* ID3.add(frame): self[frame.HashKey] = frame
add(t, fr) ==
    [k \in DOMAIN t \cup {HashKey(fr)} |-> IF k = HashKey(fr) THEN fr ELSE t[k]]

FramesOf(t, fid) == {k \in DOMAIN t : k[1] = fid}

\* ------------------------------------------------------------- MP3Tagger
SingleFields ==
    {"TIT2", "TPE1", "TALB", "TPOS", "TCON", "TCOM", "TPE2", "TDRC", "TRCK", "TLAN"}

OldTag == add(add(EmptyTag, TextFrame("TIT2", <<"o">>)), TextFrame("TLEN", <<"7">>))

\* the files an MP3Tagger may be pointed at
File(e, tg, a, q) ==
    [exists |-> e, tagged |-> tg, id3 |-> IF tg THEN OldTag ELSE EmptyTag,
     audio |-> a, lenq |-> q]

NoFile == File(FALSE, FALSE, "none", 0)

Files == {File(TRUE, tg, "complete", q) : tg \in BOOLEAN, q \in LengthsQ} \cup {NoFile}

\* MP3Tagger.__init__ on file f; decodes tells whether mutagen.mp3.MP3 finds
\* MPEG frames to measure (always, for a complete file)
Tagger_init(f, decodes) ==
    IF ~f.exists THEN [err |-> "MutagenError", tag |-> EmptyTag]
    ELSE LET loaded == IF f.tagged THEN f.id3 ELSE EmptyTag
         IN  IF ~decodes THEN [err |-> "HeaderNotFoundError", tag |-> loaded]
             ELSE [err |-> None,
                   tag |-> add(loaded, TextFrame("TLEN", LengthText(f.lenq)))]

Open ==
    /\ ~opened /\ tagErr = None
    /\ LET r == Tagger_init(file, TRUE)
       IN  /\ tagErr' = r.err
           /\ opened' = (r.err = None)
           /\ tag' = IF r.err = None THEN r.tag ELSE tag
    /\ UNCHANGED <<file, lastSet, prevSet, adds, nops, chapVars, progVars>>

\* the body shared by the ten set_* methods: delall(fid) then add(fid(text=v))
SetText(fid, v) ==
    /\ opened /\ nops < MaxOps
    /\ tag' = add(delall(tag, fid), TextFrame(fid, v))
    /\ lastSet' = [f \in DOMAIN lastSet \cup {fid} |-> IF f = fid THEN v ELSE lastSet[f]]
    /\ prevSet' = IF fid \in DOMAIN lastSet
                  THEN [f \in DOMAIN prevSet \cup {fid} |->
                          IF f = fid THEN lastSet[fid] ELSE prevSet[f]]
                  ELSE prevSet
    /\ nops' = nops + 1
    /\ UNCHANGED <<opened, tagErr, file, adds, chapVars, progVars>>

set_title == \E v \in Values : SetText("TIT2", v)
set_artist == \E v \in Values : SetText("TPE1", v)
set_album == \E v \in Values : SetText("TALB", v)
set_season == \E v \in Values : SetText("TPOS", v)
set_genre == \E v \in Values : SetText("TCON", v)
set_composer == \E v \in Values : SetText("TCOM", v)
set_accompaniment == \E v \in Values : SetText("TPE2", v)
set_date == \E v \in Values : SetText("TDRC", v)
set_trackno == \E v \in Values : SetText("TRCK", v)
set_language == \E v \in Values : SetText("TLAN", v)

AddKeyed(fid, lang, desc, v) ==
    /\ opened /\ nops < MaxOps
    /\ tag' = add(tag, KeyedFrame(fid, lang, desc, v))
    /\ adds' = Append(adds, KeyedFrame(fid, lang, desc, v))
    /\ nops' = nops + 1
    /\ UNCHANGED <<opened, tagErr, file, lastSet, prevSet, chapVars, progVars>>

add_comment == \E l \in Langs, d \in Descs, v \in Values : AddKeyed("COMM", l, d, v)
add_lyrics == \E l \in Langs, d \in Descs, v \in Values : AddKeyed("USLT", l, d, v)

\* no MP3Tagger constructed yet
NoTagger ==
    /\ tag = EmptyTag
    /\ opened = FALSE
    /\ tagErr = None
    /\ lastSet = [f \in {} |-> None]
    /\ prevSet = [f \in {} |-> None]
    /\ adds = <<>>
    /\ nops = 0

\* no Chapter constructed yet
NoChapters ==
    /\ chapters = <<>>
    /\ results = <<>>

\* ------------------------------------------------------------------ paths
\* a path is its sequence of components; an absolute path starts with "/"
Cwd == <<"/", "cwd">>
Outdirs == {<<".">>, <<"out">>}
Templates == {"{slug}-{epnum}.{ext}", "/pod/{slug}-{epnum}.{ext}"}
Epnums == {"1", "2"}
Comments == {"", "line1\r\nline2"}

\* the labels of the marker file, <<>> when -m is not given
MarkerLists ==
    {<<>>, <<[start |-> 0, end |-> 5, indexed |-> TRUE],
             [start |-> 5, end |-> 7, indexed |-> FALSE],
             [start |-> 7, end |-> 9, indexed |-> TRUE]>>}

Name(epnum) == CASE epnum = "1" -> "xbn-1.mp3" [] epnum = "2" -> "xbn-2.mp3"

\* filename.format(slug=slug.lower(), epnum=number, ext='mp3'), slug = XBN
Format(template, epnum) ==
    IF template = "{slug}-{epnum}.{ext}" THEN <<Name(epnum)>>
    ELSE <<"/", "pod", Name(epnum)>>

IsAbs(p) == Len(p) > 0 /\ p[1] = "/"

\* os.path.join(a, b): b alone when b is absolute
join(a, b) == IF IsAbs(b) THEN b ELSE a \o b

NotDot(c) == c # "."

\* the file a path names when the process opens it: relative to the working
\* directory, "." components dropped
Resolve(p) == SelectSeq(IF IsAbs(p) THEN p ELSE Cwd \o p, NotDot)

AllPaths ==
    {Resolve(join(o, Format(t, e))) : o \in Outdirs, t \in Templates, e \in Epnums}
    \cup {Resolve(Format(t, e)) : t \in Templates, e \in Epnums}

\* the program has not started
NoProgram ==
    /\ pc = "boot"
    /\ exc = None
    /\ global_m = "unbound"
    /\ args = [outdir |-> <<".">>, exists |-> TRUE, markers |-> <<>>]
    /\ config = [valid |-> TRUE, filename |-> "{slug}-{epnum}.{ext}"]
    /\ metadata = [number |-> None, name |-> None, comment |-> ""]
    /\ mp3_path = <<>>
    /\ outfile = <<>>
    /\ thr = "new"
    /\ lame = "none"
    /\ fs = [p \in AllPaths |-> NoFile]
    /\ tagPath = <<>>
    /\ sigAtWork = FALSE
    /\ stop_requested = FALSE

InitTag ==
    /\ file \in Files
    /\ NoTagger
    /\ NoChapters
    /\ NoProgram

NextTag ==
    \/ Open
    \/ set_title \/ set_artist \/ set_album \/ set_season \/ set_genre
    \/ set_composer \/ set_accompaniment \/ set_date \/ set_trackno
    \/ set_language
    \/ add_comment \/ add_lyrics

vars == <<tagVars, chapVars, progVars>>

SpecTag == InitTag /\ [][NextTag]_vars

\* --------------------------------------------------------------- Chapter
Urls == {None, "http://u"}
Images == {None, "cover.png"}
Texts == {None, "Intro"}
Starts == {0}
Ends == {5}

\* Chapter.__init__: the fields verbatim, elem_id = None
Chapter(start, end, url, image, text, indexed) ==
    [elem_id |-> None, text |-> text, start |-> start, end |-> end,
     url |-> url, image |-> image, indexed |-> indexed]

SubFrames(c) ==
    (IF c.text # None THEN <<[id |-> "TIT2", text |-> c.text]>> ELSE <<>>)
    \o (IF c.url # None
        THEN <<[id |-> "WXXX", desc |-> "chapter url", url |-> c.url]>>
        ELSE <<>>)

CHAP(c) ==
    [id |-> "CHAP", element_id |-> c.elem_id, start_time |-> c.start,
     end_time |-> c.end, sub_frames |-> SubFrames(c)]

\* an as_chap without the image test: the image is silently dropped
as_chap_dropsImage(c) == [raised |-> None, frames |-> <<CHAP(c)>>]

\* Chapter.as_chap: the exception raised, or the one CHAP frame returned
as_chap(c) ==
    IF c.image # None
    THEN [raised |-> "NotImplementedError", frames |-> <<>>]
    ELSE [raised |-> None, frames |-> <<CHAP(c)>>]

Chapter_init ==
    /\ Len(chapters) < MaxChapters
    /\ \E st \in Starts, en \in Ends, u \in Urls, im \in Images, tx \in Texts,
          ix \in BOOLEAN :
          chapters' = Append(chapters, Chapter(st, en, u, im, tx, ix))
    /\ UNCHANGED <<results, tagVars, progVars>>

Call_as_chap ==
    /\ Len(results) < MaxRenders
    /\ \E i \in 1..Len(chapters) :
          results' = Append(results, [of |-> i] @@ as_chap(chapters[i]))
    /\ UNCHANGED <<chapters, tagVars, progVars>>

InitChap ==
    /\ file = NoFile
    /\ NoTagger
    /\ NoChapters
    /\ NoProgram

NextChap == Chapter_init \/ Call_as_chap

SpecChap == InitChap /\ [][NextChap]_vars

\* ------------------------------------------------------------ the program
\* the methods each class defines or inherits
Methods(cls) ==
    CASE cls = "Main" ->
           {"ask_metadata", "parse_args", "check_config", "do_encode", "main"}
      [] cls = "MP3Encoder" ->
           {"setup", "run", "request_stop", "start", "join"}

MainAlive == pc \notin {"boot", "done", "crashed"}

\* Main.__init__, first half: self.m = MP3Encoder(); signal.signal(SIGINT, ...)
Main_install ==
    /\ pc = "boot"
    /\ pc' = "configure"
    /\ UNCHANGED <<exc, global_m, args, config, metadata, mp3_path, outfile, thr,
                   lame, fs, tagPath, sigAtWork, stop_requested, tagVars, chapVars>>

\* Main.__init__, second half: parse_args() and check_config().  When
\* os.mkdir(outdir) fails because the directory exists, parse_args reads
\* os.errno, which the interpreter may or may not provide (Python 3.7 dropped
\* it); check_config raises PostShowError when a required key is missing.
Main_configure ==
    /\ pc = "configure"
    /\ \E has_os_errno \in BOOLEAN :
          IF args.exists /\ ~has_os_errno
          THEN pc' = "crashed" /\ exc' = "AttributeError"
          ELSE IF config.valid
               THEN pc' = "bind" /\ exc' = exc
               ELSE pc' = "crashed" /\ exc' = "PostShowError"
    /\ UNCHANGED <<global_m, args, config, metadata, mp3_path, outfile, thr, lame,
                   fs, tagPath, sigAtWork, stop_requested, tagVars, chapVars>>

\* m = Main(): the module-level name m is bound once the constructor returns
Bind_m ==
    /\ pc = "bind"
    /\ global_m' = "Main"
    /\ pc' = "ask_metadata"
    /\ UNCHANGED <<exc, args, config, metadata, mp3_path, outfile, thr, lame, fs,
                   tagPath, sigAtWork, stop_requested, tagVars, chapVars>>

\* Main.ask_metadata: a non-empty number, a non-empty name, a comment
ask_metadata ==
    /\ pc = "ask_metadata"
    /\ \E n \in Epnums, c \in Comments :
          metadata' = [number |-> n, name |-> "Pilot", comment |-> c]
    /\ pc' = "setup"
    /\ UNCHANGED <<exc, global_m, args, config, mp3_path, outfile, thr, lame, fs,
                   tagPath, sigAtWork, stop_requested, tagVars, chapVars>>

\* Main.main: self.mp3_path = filename.format(...); self.m.setup(wav,
\* os.path.join(outdir, self.mp3_path), bitrate)
main_setup ==
    /\ pc = "setup"
    /\ mp3_path' = Format(config.filename, metadata.number)
    /\ outfile' = join(args.outdir, mp3_path')
    /\ pc' = "start"
    /\ UNCHANGED <<exc, global_m, args, config, metadata, thr, lame, fs, tagPath,
                   sigAtWork, stop_requested, tagVars, chapVars>>

\* Main.main: self.m.start()
main_start ==
    /\ pc = "start"
    /\ thr' = "started"
    /\ pc' = "join"
    /\ UNCHANGED <<exc, global_m, args, config, metadata, mp3_path, outfile, lame,
                   fs, tagPath, sigAtWork, stop_requested, tagVars, chapVars>>

\* Main.main: self.m.join() returns once the encoder thread has ended
main_join ==
    /\ pc = "join"
    /\ thr = "finished"
    /\ pc' = "tagger"
    /\ UNCHANGED <<exc, global_m, args, config, metadata, mp3_path, outfile, thr,
                   lame, fs, tagPath, sigAtWork, stop_requested, tagVars, chapVars>>

\* Main.main: t = MP3Tagger(self.mp3_path), the last statement of the program
main_tagger ==
    /\ pc = "tagger"
    /\ tagPath' = mp3_path
    /\ LET f == fs[Resolve(mp3_path)]
       IN  \E decodes \in (IF f.audio = "partial" THEN BOOLEAN ELSE {TRUE}) :
             LET r == Tagger_init(f, decodes)
             IN  /\ tagErr' = r.err
                 /\ opened' = (r.err = None)
                 /\ tag' = IF r.err = None THEN r.tag ELSE tag
                 /\ exc' = r.err
                 /\ pc' = IF r.err = None THEN "done" ELSE "crashed"
    /\ UNCHANGED <<global_m, args, config, metadata, mp3_path, outfile, thr, lame,
                   fs, sigAtWork, stop_requested, file, lastSet, prevSet, adds,
                   nops, chapVars>>

\* MP3Encoder.run: subprocess.Popen(['lame', ...]); lame creates the output
run_Popen ==
    /\ thr = "started"
    /\ lame' = "running"
    /\ fs' = [fs EXCEPT ![Resolve(outfile)] = File(TRUE, FALSE, "partial", 0)]
    /\ thr' = "waiting"
    /\ UNCHANGED <<pc, exc, global_m, args, config, metadata, mp3_path, outfile,
                   tagPath, sigAtWork, stop_requested, tagVars, chapVars>>

\* the lame process runs to its end and leaves the whole MP3, without a tag
lame_exit ==
    /\ lame = "running"
    /\ lame' = "exited"
    /\ \E q \in LengthsQ :
          fs' = [fs EXCEPT ![Resolve(outfile)] = File(TRUE, FALSE, "complete", q)]
    /\ UNCHANGED <<pc, exc, global_m, args, config, metadata, mp3_path, outfile,
                   thr, tagPath, sigAtWork, stop_requested, tagVars, chapVars>>

\* the lame process ends early by itself (killed from outside, input or
\* output error) and leaves what it had written
lame_abort ==
    /\ lame = "running"
    /\ lame' = "aborted"
    /\ \E q \in LengthsQ :
          fs' = [fs EXCEPT ![Resolve(outfile)] = File(TRUE, FALSE, "partial", q)]
    /\ UNCHANGED <<pc, exc, global_m, args, config, metadata, mp3_path, outfile,
                   thr, tagPath, sigAtWork, stop_requested, tagVars, chapVars>>

\* MP3Encoder.run: self.p.wait() returns when the process has ended, whatever
\* its exit status, and run returns
run_wait ==
    /\ thr = "waiting"
    /\ lame \in {"exited", "aborted", "terminated"}
    /\ thr' = "finished"
    /\ UNCHANGED <<pc, exc, global_m, args, config, metadata, mp3_path, outfile,
                   lame, fs, tagPath, sigAtWork, stop_requested, tagVars, chapVars>>

\* exit_handler(sig, frame): m.request_stop(), run in the main thread; an
\* exception it raises ends the main thread.  m is the module-level name.
\* MP3Encoder.request_stop: self.p.terminate(), self.p set by run.
exit_handler ==
    /\ MainAlive
    /\ sigAtWork' = (sigAtWork \/ thr \in {"started", "waiting"})
    /\ CASE global_m = "unbound" ->
              /\ exc' = "NameError" /\ pc' = "crashed"
              /\ UNCHANGED <<stop_requested, lame>>
         [] global_m # "unbound" /\ "request_stop" \notin Methods(global_m) ->
              /\ exc' = "AttributeError" /\ pc' = "crashed"
              /\ UNCHANGED <<stop_requested, lame>>
         [] OTHER ->
              /\ stop_requested' = TRUE
              /\ IF thr \in {"waiting", "finished"}
                 THEN /\ lame' = IF lame = "running" THEN "terminated" ELSE lame
                      /\ UNCHANGED <<exc, pc>>
                 ELSE /\ exc' = "AttributeError" /\ pc' = "crashed"
                      /\ UNCHANGED lame
    /\ UNCHANGED <<global_m, args, config, metadata, mp3_path, outfile, thr, fs,
                   tagPath, tagVars, chapVars>>

\* a file left by an earlier run
StaleFile == File(TRUE, FALSE, "complete", 14)

Init ==
    /\ NoTagger
    /\ NoChapters
    /\ file = NoFile
    /\ pc = "boot"
    /\ exc = None
    /\ global_m = "unbound"
    /\ args \in [outdir : Outdirs, exists : BOOLEAN, markers : MarkerLists]
    /\ args.outdir = <<".">> => args.exists
    /\ config \in [valid : BOOLEAN, filename : Templates]
    /\ metadata = [number |-> None, name |-> None, comment |-> ""]
    /\ mp3_path = <<>>
    /\ outfile = <<>>
    /\ thr = "new"
    /\ lame = "none"
    /\ \E old \in {NoFile, StaleFile} :
          fs = [p \in AllPaths |-> IF Len(p) = Len(Cwd) + 1 THEN old ELSE NoFile]
    /\ tagPath = <<>>
    /\ sigAtWork = FALSE
    /\ stop_requested = FALSE

Next ==
    \/ Main_install \/ Main_configure \/ Bind_m
    \/ ask_metadata \/ main_setup \/ main_start \/ main_join \/ main_tagger
    \/ run_Popen \/ lame_exit \/ lame_abort \/ run_wait
    \/ exit_handler

Spec == Init /\ [][Next]_vars

\* ================================================================= claims

\* C1: once a single-valued field F has been set, the tag holds exactly one
\* frame of F's type, and that frame holds the value of the most recent set
\* of F (set v1 then v2 leaves one frame holding v2, never a duplicate).
C1_ReplaceNotAppend ==
    \A f \in DOMAIN lastSet :
        /\ f \in SingleFields
        /\ Cardinality(FramesOf(tag, f)) = 1
        /\ \A k \in FramesOf(tag, f) : tag[k] = TextFrame(f, lastSet[f])

\* some field was set twice, with v1 and then a different v2
C1_Witness ==
    \E f \in DOMAIN prevSet : prevSet[f] # lastSet[f] /\ <<f>> \in DOMAIN tag

SameKey(a, b) == a.id = b.id /\ a.lang = b.lang /\ a.desc = b.desc

\* C2 as stated: two add_comment (or add_lyrics) calls with the same
\* (language, description) and different text leave two distinct frames in
\* the tag, one for each call.
C2_AppendKeepsBoth ==
    \A i, j \in 1..Len(adds) :
        (i < j /\ SameKey(adds[i], adds[j]) /\ adds[i].text # adds[j].text)
        => \E k1, k2 \in FramesOf(tag, adds[i].id) :
              k1 # k2 /\ tag[k1] = adds[i] /\ tag[k2] = adds[j]

\* C2 amended: for every (language, description) a comment (lyrics) was added
\* under, the tag holds exactly one frame with that key, and it is the frame
\* of the latest add under the key; adds under other keys remove nothing.
C2_AddReplacesSameKey ==
    \A i \in 1..Len(adds) :
        LET later == {j \in i..Len(adds) : SameKey(adds[i], adds[j])}
            last  == CHOOSE j \in later : \A m \in later : m <= j
            held  == {k \in FramesOf(tag, adds[i].id) : SameKey(tag[k], adds[i])}
        IN  /\ Cardinality(held) = 1
            /\ \A k \in held : tag[k] = adds[last]

\* a comment or lyrics frame was added twice under one key with different text
C2_Witness ==
    \E i, j \in 1..Len(adds) :
        /\ i < j /\ SameKey(adds[i], adds[j]) /\ adds[i].text # adds[j].text
        /\ HashKey(adds[j]) \in DOMAIN tag

\* C6 as stated: a tagger opened on an existing file without a tag holds,
\* until a further call, exactly one frame, the duration frame, whose value
\* is round(decoded_length_ms), a whole number of milliseconds.
C6_DurationIsRoundedMs ==
    (opened /\ ~file.tagged /\ nops = 0)
    => /\ DOMAIN tag = {<<"TLEN">>}
       /\ tag[<<"TLEN">>] = TextFrame("TLEN", IntStr(RoundHalfEven(file.lenq)))

RECURSIVE IndexedIds(_, _)
\* the element_ids of the frames fr[i] of the indexed chapters, in chapter order
IndexedIds(marks, fr) ==
    IF marks = <<>> THEN <<>>
    ELSE (IF Head(marks).indexed THEN <<Head(fr).element_id>> ELSE <<>>)
         \o IndexedIds(Tail(marks), Tail(fr))

\* C3 as stated: when chapters were supplied, the tag ends up with one
\* chapter frame per chapter and exactly one table-of-contents frame, whose
\* child list is the element_ids of the indexed chapters in chapter order.
C3_ChaptersEmitted ==
    (pc = "done" /\ args.markers # <<>>)
    => LET n     == Len(args.markers)
           chaps == FramesOf(tag, "CHAP")
           tocs  == FramesOf(tag, "CTOC")
       IN  /\ Cardinality(chaps) = n
           /\ Cardinality(tocs) = 1
           /\ \E ks \in [1..n -> chaps] :
                 /\ \A i, j \in 1..n : i # j => ks[i] # ks[j]
                 /\ \A i \in 1..n :
                       /\ tag[ks[i]].start_time = args.markers[i].start
                       /\ tag[ks[i]].end_time = args.markers[i].end
                 /\ \A k \in tocs :
                       tag[k].child_element_ids
                         = IndexedIds(args.markers, [i \in 1..n |-> tag[ks[i]]])

\* C4 as stated: every chapter frame rendered carries an element_id that was
\* assigned to its chapter, and the frames of two distinct chapters carry
\* different element_ids.
C4_UniqueElementIds ==
    \A i, j \in 1..Len(results) :
        (results[i].raised = None /\ results[j].raised = None
         /\ results[i].of # results[j].of)
        => /\ results[i].frames[1].element_id # None
           /\ results[i].frames[1].element_id # results[j].frames[1].element_id

C7_SigintStopsEncoder ==
    sigAtWork => (stop_requested /\ lame # "running")

\* C8 as stated: when the lame process ended before it had finished, no
\* MP3Tagger is ever opened on the file the encoder was writing.
C8_NoTagAfterAbort ==
    ~(/\ lame \in {"aborted", "terminated"}
      /\ tagPath # <<>>
      /\ Resolve(tagPath) = Resolve(outfile))

\* C9 as stated: a session that opened its MP3Tagger ends with the tag
\* written back: the file's embedded tag is the in-memory frame set.
C9_SessionPersists ==
    (pc = "done" /\ opened)
    => /\ fs[Resolve(tagPath)].tagged
       /\ fs[Resolve(tagPath)].id3 = tag

\* C10 as stated: when MP3Tagger is opened, its path names the file the
\* encoder was set up to write (the path given to MP3Encoder.setup) and the
\* encoder thread has finished.
C10_TaggerOpensEncodedFile ==
    tagPath # <<>>
    => /\ Resolve(tagPath) = Resolve(outfile)
       /\ thr = "finished"

====
